---- MODULE Spec2Model ----
(***************************************************************************)
(* canvas2markdown: the HTML-to-Markdown conversion pipeline of            *)
(* src/src/App.tsx (detectLanguage, postProcessMarkdown,                   *)
(* convertToMarkdown) and the fencedCodeBlock rule of the Turndown variant *)
(* in src/unnamed/part_001; the list-paragraph unwrapping on the document  *)
(* tree; and the status state of the App component.                        *)
(*                                                                         *)
(* A JavaScript string is a sequence of one-character strings.  Every      *)
(* regular expression of the source is translated into a matcher that      *)
(* returns the end of the match starting at a position (0: no match) and   *)
(* String.prototype.replace with the g flag into a left-to-right scan that *)
(* resumes after each match, reading anchors from the original string.     *)
(***************************************************************************)
EXTENDS Integers, Sequences, FiniteSets, TLC

VARIABLES
    pc,         \* position of the run
    lines,      \* the pieces the raw Markdown is made of
    md,         \* raw Markdown handed to postProcessMarkdown
    indented,   \* clean after step 3 of postProcessMarkdown
    out,        \* postProcessMarkdown(md)
    out2,       \* postProcessMarkdown(out)
    html,       \* the code block handed to convertToMarkdown
    code,       \* text handed to detectLanguage / textContent of <code>
    codeClass,  \* className of the <code> element
    preClass,   \* className of the enclosing <pre> element
    lang,       \* tag returned by detectLanguage
    tagName,    \* kind of each node of the parsed document
    parsed,     \* childNodes as parseFromString leaves them
    childNodes, \* childNodes of the document being cleaned up
    status,         \* the popup's status state
    statusBy,       \* the event that made the last setStatus call
    markdownOutput, \* the popup's markdownOutput state
    clipboard,      \* the text on the system clipboard
    auto,           \* position of autoLoadSelection
    autoMd,         \* the local md of autoLoadSelection
    clicks,         \* Copy clicks so far
    writes,         \* writeText calls of copyToClipboard not yet settled
    timers          \* pending setTimeout callbacks with the time left

convVars == <<pc, lines, md, indented, out, out2, html, code, codeClass, preClass, lang>>

domVars == <<tagName, parsed, childNodes>>

popupVars == <<status, statusBy, markdownOutput, clipboard, auto, autoMd, clicks, writes, timers>>

vars == <<convVars, domVars, popupVars>>

\* No document tree is being cleaned up.
NoDom == tagName = << >> /\ parsed = << >> /\ childNodes = << >>

\* The events that call setStatus: the mount, autoLoadSelection, the n-th
\* Copy click, a Clear click and the firing of a timer.
Event(kind, n) == [kind |-> kind, n |-> n]

\* The popup is not open.
NoPopup ==
    /\ status = "idle"
    /\ statusBy = Event("none", 0)
    /\ markdownOutput = << >>
    /\ clipboard = << >>
    /\ auto = "none"
    /\ autoMd = << >>
    /\ clicks = 0
    /\ writes = {}
    /\ timers = {}

----------------------------------------------------------------------------
(* Characters and the string primitives of JavaScript the source uses.     *)

NL == "\n"
SP == " "
TAB == "\t"
\* The grave accent (U+0060), which a TLA+ string literal cannot hold.
BT == "BT"

\* \s of a JavaScript RegExp and the characters String.prototype.trim strips,
\* restricted to the characters of the model.
IsWs(c) == c \in {SP, TAB, NL}

\* \d
IsDigit(c) == c \in {"0", "1", "2", "3", "4", "5", "6", "7", "8", "9"}

\* ^ under the m flag
AtLineStart(s, i) == i = 1 \/ (i >= 2 /\ i <= Len(s) + 1 /\ s[i - 1] = NL)

\* $ under the m flag
AtLineEnd(s, i) == i = Len(s) + 1 \/ (i >= 1 /\ i <= Len(s) /\ s[i] = NL)

\* End of the greedy run \s* starting at i.
SkipWs(s, i) ==
    IF i > Len(s) THEN i
    ELSE CHOOSE j \in i..(Len(s) + 1) :
            /\ (j = Len(s) + 1 \/ ~IsWs(s[j]))
            /\ \A k \in i..(j - 1) : IsWs(s[k])

\* End of the greedy run \d* starting at i.
SkipDigits(s, i) ==
    IF i > Len(s) THEN i
    ELSE CHOOSE j \in i..(Len(s) + 1) :
            /\ (j = Len(s) + 1 \/ ~IsDigit(s[j]))
            /\ \A k \in i..(j - 1) : IsDigit(s[k])

\* End of the greedy run [^*\n]* starting at i.
SkipText(s, i) ==
    IF i > Len(s) THEN i
    ELSE CHOOSE j \in i..(Len(s) + 1) :
            /\ (j = Len(s) + 1 \/ s[j] \in {"*", NL})
            /\ \A k \in i..(j - 1) : s[k] \notin {"*", NL}

\* s has the literal p at position i.
HasAt(s, i, p) ==
    /\ i >= 1
    /\ i + Len(p) - 1 <= Len(s)
    /\ \A k \in 1..Len(p) : s[i + k - 1] = p[k]

\* String.prototype.startsWith / endsWith / includes
StartsWith(s, p) == HasAt(s, 1, p)
EndsWith(s, p) == HasAt(s, Len(s) - Len(p) + 1, p)
Includes(s, p) == \E i \in 1..(Len(s) + 1) : HasAt(s, i, p)

\* String.prototype.trim
Trim(s) ==
    LET a == SkipWs(s, 1) IN
    IF a > Len(s) THEN << >>
    ELSE LET b == CHOOSE j \in a..Len(s) :
                    ~IsWs(s[j]) /\ \A k \in (j + 1)..Len(s) : IsWs(s[k])
         IN SubSeq(s, a, b)

\* The lines of s: the positions where a line starts, and the line there.
LineStarts(s) == {i \in 1..(Len(s) + 1) : AtLineStart(s, i)}
LineEndOf(s, i) == CHOOSE j \in i..(Len(s) + 1) :
                        AtLineEnd(s, j) /\ \A k \in i..(j - 1) : s[k] # NL
LineAt(s, i) == SubSeq(s, i, LineEndOf(s, i) - 1)

\* code.split('\n')[0]
FirstLineOf(s) == LineAt(s, 1)

----------------------------------------------------------------------------
(* postProcessMarkdown: the six ordered rewrites.                          *)

Fence == <<BT, BT, BT>>
H3 == <<"#", "#", "#", " ">>

\* /^(\s*)\*\*([^*\n]+)\*\*(\s*)$/gm : end of the match at i, 0 if none.
\* The trailing (\s*) is greedy and backs off to the last position where $
\* holds: the end of the string or the last line break of the run.
BoldMatchEnd(s, i) ==
    LET j == SkipWs(s, i)
        k == SkipText(s, j + 2)
        r == SkipWs(s, k + 2)
    IN IF /\ AtLineStart(s, i)
          /\ HasAt(s, j, <<"*", "*">>)
          /\ k > j + 2
          /\ HasAt(s, k, <<"*", "*">>)
       THEN IF r = Len(s) + 1 THEN r
            ELSE IF \E q \in (k + 2)..(r - 1) : s[q] = NL
                 THEN CHOOSE q \in (k + 2)..(r - 1) :
                        s[q] = NL /\ \A q2 \in (q + 1)..(r - 1) : s[q2] # NL
                 ELSE 0
       ELSE 0

\* '$1### $2$3'
BoldReplacement(s, i) ==
    LET j == SkipWs(s, i)
        k == SkipText(s, j + 2)
        e == BoldMatchEnd(s, i)
    IN SubSeq(s, i, j - 1) \o H3 \o SubSeq(s, j + 2, k - 1) \o SubSeq(s, k + 2, e - 1)

RECURSIVE ReplaceBold(_, _)
ReplaceBold(s, i) ==
    IF i > Len(s) THEN << >>
    ELSE IF BoldMatchEnd(s, i) # 0
         THEN BoldReplacement(s, i) \o ReplaceBold(s, BoldMatchEnd(s, i))
         ELSE <<s[i]>> \o ReplaceBold(s, i + 1)

\* 1. Fix MD036: clean.replace(/^(\s*)\*\*([^*\n]+)\*\*(\s*)$/gm, '$1### $2$3')
EmphasisToHeading(s) == ReplaceBold(s, 1)

\* /^(\s*)\d+\.\s/gm
OlMatchEnd(s, i) ==
    LET j == SkipWs(s, i)
        d == SkipDigits(s, j)
    IN IF /\ AtLineStart(s, i)
          /\ d > j
          /\ d + 1 <= Len(s)
          /\ s[d] = "."
          /\ IsWs(s[d + 1])
       THEN d + 2
       ELSE 0

\* The replacement that keeps the number it found: '$1N. '.
OlKeepNumber(s, i) == SubSeq(s, i, OlMatchEnd(s, i) - 2) \o <<SP>>

\* '$11. ' : the pattern has one group, so $11 is $1 followed by "1".
OlReplacement(s, i) == SubSeq(s, i, SkipWs(s, i) - 1) \o <<"1", ".", " ">>

RECURSIVE ReplaceOl(_, _)
ReplaceOl(s, i) ==
    IF i > Len(s) THEN << >>
    ELSE IF OlMatchEnd(s, i) # 0
         THEN OlReplacement(s, i) \o ReplaceOl(s, OlMatchEnd(s, i))
         ELSE <<s[i]>> \o ReplaceOl(s, i + 1)

\* 2. Fix MD029: clean.replace(/^(\s*)\d+\.\s/gm, '$11. ')
RenumberOrdered(s) == ReplaceOl(s, 1)

Spaces(n) == [k \in 1..n |-> SP]

\* ([-*]|\d+\.) at position i: end of the marker, 0 if none.
MarkerEnd(s, i) ==
    IF i > Len(s) THEN 0
    ELSE IF s[i] \in {"-", "*"} THEN i + 1
    ELSE LET d == SkipDigits(s, i) IN
         IF d > i /\ d <= Len(s) /\ s[d] = "." THEN d + 1 ELSE 0

\* /^( {n})([-*]|\d+\.)/gm
IndentMatchEnd(s, i, n) ==
    IF AtLineStart(s, i) /\ HasAt(s, i, Spaces(n)) THEN MarkerEnd(s, i + n) ELSE 0

RECURSIVE ReplaceIndent(_, _, _, _)
ReplaceIndent(s, i, n, m) ==
    IF i > Len(s) THEN << >>
    ELSE IF IndentMatchEnd(s, i, n) # 0
         THEN Spaces(m) \o SubSeq(s, i + n, IndentMatchEnd(s, i, n) - 1)
                \o ReplaceIndent(s, IndentMatchEnd(s, i, n), n, m)
         ELSE <<s[i]>> \o ReplaceIndent(s, i + 1, n, m)

\* clean.replace(/^( {2})([-*]|\d+\.)/gm, '    $2')
IndentTwo(s) == ReplaceIndent(s, 1, 2, 4)
\* clean.replace(/^( {4})([-*]|\d+\.)/gm, '        $2')
IndentFour(s) == ReplaceIndent(s, 1, 4, 8)

\* 3. Fix Indentation: the two replaces, one after the other.
ReIndent(s) == IndentFour(IndentTwo(s))

\* End of the greedy run #{1,6} starting at i (at most six are taken).
SkipHashes(s, i) ==
    CHOOSE j \in i..(i + 6) :
        /\ (j = i + 6 \/ j = Len(s) + 1 \/ s[j] # "#")
        /\ \A k \in i..(j - 1) : k <= Len(s) /\ s[k] = "#"

\* /^(#{1,6}\s+\d+)\\\. /gm : end of group 1, 0 if no match.
HeadingNumEnd(s, i) ==
    LET h == SkipHashes(s, i)
        w == SkipWs(s, h)
        d == SkipDigits(s, w)
    IN IF /\ AtLineStart(s, i)
          /\ i <= Len(s)
          /\ h > i
          /\ w > h
          /\ d > w
          /\ HasAt(s, d, <<"\\", ".", " ">>)
       THEN d
       ELSE 0

RECURSIVE ReplaceEscaped(_, _)
ReplaceEscaped(s, i) ==
    IF i > Len(s) THEN << >>
    ELSE IF HeadingNumEnd(s, i) # 0
         THEN SubSeq(s, i, HeadingNumEnd(s, i) - 1) \o <<".", " ">>
                \o ReplaceEscaped(s, HeadingNumEnd(s, i) + 3)
         ELSE <<s[i]>> \o ReplaceEscaped(s, i + 1)

\* 4. clean.replace(/^(#{1,6}\s+\d+)\\\. /gm, '$1. ')
UnescapeHeadingPeriod(s) == ReplaceEscaped(s, 1)

\* /([^\n])\n(```)/g
BeforeFenceMatch(s, i) == i <= Len(s) /\ s[i] # NL /\ HasAt(s, i + 1, <<NL>> \o Fence)

RECURSIVE ReplaceBeforeFence(_, _)
ReplaceBeforeFence(s, i) ==
    IF i > Len(s) THEN << >>
    ELSE IF BeforeFenceMatch(s, i)
         THEN <<s[i], NL, NL>> \o Fence \o ReplaceBeforeFence(s, i + 5)
         ELSE <<s[i]>> \o ReplaceBeforeFence(s, i + 1)

\* clean.replace(/([^\n])\n(```)/g, '$1\n\n$2')
BlankBeforeFence(s) == ReplaceBeforeFence(s, 1)

\* /(```)\n([^\n])/g
AfterFenceMatch(s, i) == HasAt(s, i, Fence \o <<NL>>) /\ i + 4 <= Len(s) /\ s[i + 4] # NL

RECURSIVE ReplaceAfterFence(_, _)
ReplaceAfterFence(s, i) ==
    IF i > Len(s) THEN << >>
    ELSE IF AfterFenceMatch(s, i)
         THEN Fence \o <<NL, NL, s[i + 4]>> \o ReplaceAfterFence(s, i + 5)
         ELSE <<s[i]>> \o ReplaceAfterFence(s, i + 1)

\* clean.replace(/(```)\n([^\n])/g, '$1\n\n$2')
BlankAfterFence(s) == ReplaceAfterFence(s, 1)

\* 5. Fix MD031: the two replaces, one after the other.
FenceSpacing(s) == BlankAfterFence(BlankBeforeFence(s))

\* clean + '\n' : the line break appended without the trim.
AppendLineBreak(s) == s \o <<NL>>

\* 6. Fix MD047: clean.trim() + '\n'
SingleTrailingNewline(s) == Trim(s) \o <<NL>>

postProcessMarkdown(s) ==
    SingleTrailingNewline(
        FenceSpacing(
            UnescapeHeadingPeriod(
                ReIndent(
                    RenumberOrdered(
                        EmphasisToHeading(s))))))

----------------------------------------------------------------------------
(* detectLanguage                                                          *)

\* \w
IsWord(c) ==
    \/ IsDigit(c)
    \/ c \in {"_", "a", "b", "c", "d", "e", "f", "g", "h", "i", "j", "k", "l", "m",
              "n", "o", "p", "q", "r", "s", "t", "u", "v", "w", "x", "y", "z"}

\* /^(k1|k2|...)\b/.test(s): s starts with one of the words and the word ends
\* at a word boundary.
StartsWithWord(s, words) ==
    \E w \in words :
        /\ StartsWith(s, w)
        /\ (Len(s) = Len(w) \/ IsWord(s[Len(w)]) # IsWord(s[Len(w) + 1]))

ShellVerbs ==
    { <<"n", "p", "m">>, <<"n", "p", "x">>, <<"y", "a", "r", "n">>, <<"p", "n", "p", "m">>, <<"c", "d">>, <<"l", "s">>, <<"g", "i", "t">>, <<"d", "o", "c", "k", "e", "r">>, <<"c", "u", "r", "l">>,
      <<"w", "g", "e", "t">>, <<"b", "r", "e", "w">>, <<"s", "u", "d", "o">>, <<"a", "p", "t">>, <<"y", "u", "m">>, <<"e", "c", "h", "o">>, <<"c", "a", "t">>, <<"g", "r", "e", "p">>, <<"p", "i", "p">>,
      <<"p", "y", "t", "h", "o", "n">>, <<"n", "o", "d", "e">> }

JsKeywords ==
    { <<"i", "m", "p", "o", "r", "t">>, <<"e", "x", "p", "o", "r", "t">>, <<"c", "o", "n", "s", "t">>, <<"l", "e", "t">>, <<"v", "a", "r">>, <<"f", "u", "n", "c", "t", "i", "o", "n">>, <<"c", "l", "a", "s", "s">>, <<"a", "s", "y", "n", "c">>,
      <<"i", "n", "t", "e", "r", "f", "a", "c", "e">>, <<"t", "y", "p", "e">> }

PyKeywords == { <<"d", "e", "f">>, <<"c", "l", "a", "s", "s">>, <<"i", "m", "p", "o", "r", "t">>, <<"f", "r", "o", "m">>, <<"i", "f", SP, "_", "_", "n", "a", "m", "e", "_", "_">> }

\* /^(body|div|span|h[1-6]|#|\.)/ : no word boundary is asked for.
CssTokens ==
    { <<"b", "o", "d", "y">>, <<"d", "i", "v">>, <<"s", "p", "a", "n">>, <<"h", "1">>, <<"h", "2">>, <<"h", "3">>, <<"h", "4">>, <<"h", "5">>, <<"h", "6">>, <<"#">>, <<".">> }

TagText == <<"t", "e", "x", "t">>
TagShell == <<"s", "h", "e", "l", "l">>
TagJavascript == <<"j", "a", "v", "a", "s", "c", "r", "i", "p", "t">>
TagPython == <<"p", "y", "t", "h", "o", "n">>
TagHtml == <<"h", "t", "m", "l">>
TagJson == <<"j", "s", "o", "n">>
TagCss == <<"c", "s", "s">>

\* firstLine.startsWith('$') || /^(npm|...|node)\b/.test(firstLine)
IsShell(firstLine) == StartsWith(firstLine, <<"$">>) \/ StartsWithWord(firstLine, ShellVerbs)

\* /^(import|...|type)\b/.test(firstLine) || trimmed.includes('console.log')
\*   || trimmed.includes('=>') || trimmed.includes('document.getElementById')
IsJavascript(trimmed, firstLine) ==
    \/ StartsWithWord(firstLine, JsKeywords)
    \/ Includes(trimmed, <<"c", "o", "n", "s", "o", "l", "e", ".", "l", "o", "g">>)
    \/ Includes(trimmed, <<"=", ">">>)
    \/ Includes(trimmed, <<"d", "o", "c", "u", "m", "e", "n", "t", ".", "g", "e", "t", "E", "l", "e", "m", "e", "n", "t", "B", "y", "I", "d">>)

\* /^(def|class|import|from|if __name__)\b/.test(firstLine) ||
\*   (firstLine.includes(':') && !firstLine.includes('{') && !firstLine.includes(';'))
IsPython(firstLine) ==
    \/ StartsWithWord(firstLine, PyKeywords)
    \/ (Includes(firstLine, <<":">>) /\ ~Includes(firstLine, <<"{">>) /\ ~Includes(firstLine, <<";">>))

IsHtml(trimmed) == StartsWith(trimmed, <<"<">>) /\ EndsWith(trimmed, <<">">>)
IsJson(trimmed) == StartsWith(trimmed, <<"{">>) /\ EndsWith(trimmed, <<"}">>)
IsCss(trimmed, firstLine) ==
    Includes(trimmed, <<"{">>) /\ \E w \in CssTokens : StartsWith(firstLine, w)

\* The cascade with the python rule tried before the javascript rule.
detectLanguagePythonFirst(c) ==
    LET trimmed == Trim(c)
        firstLine == Trim(FirstLineOf(trimmed))
    IN IF trimmed = << >> THEN TagText
       ELSE IF IsShell(firstLine) THEN TagShell
       ELSE IF IsPython(firstLine) THEN TagPython
       ELSE IF IsJavascript(trimmed, firstLine) THEN TagJavascript
       ELSE IF IsHtml(trimmed) THEN TagHtml
       ELSE IF IsJson(trimmed) THEN TagJson
       ELSE IF IsCss(trimmed, firstLine) THEN TagCss
       ELSE TagShell

detectLanguage(c) ==
    LET trimmed == Trim(c)
        firstLine == Trim(FirstLineOf(trimmed))
    IN IF trimmed = << >> THEN TagText
       ELSE IF IsShell(firstLine) THEN TagShell
       ELSE IF IsJavascript(trimmed, firstLine) THEN TagJavascript
       ELSE IF IsPython(firstLine) THEN TagPython
       ELSE IF IsHtml(trimmed) THEN TagHtml
       ELSE IF IsJson(trimmed) THEN TagJson
       ELSE IF IsCss(trimmed, firstLine) THEN TagCss
       ELSE TagShell

----------------------------------------------------------------------------
(* convertToMarkdown on a code block <pre class=..><code class=..>text       *)
(* </code></pre>: the fragment is a record [text, codeClass, preClass].     *)

\* a || b on strings: the first operand unless it is empty.
Or(a, b) == IF a # << >> THEN a ELSE b

\* /(?:language-|lang-)(\w+)/ has a match starting at i.
LanguageMatchAt(cls, i) ==
    \/ (HasAt(cls, i, <<"l", "a", "n", "g", "u", "a", "g", "e", "-">>) /\ i + 9 <= Len(cls) /\ IsWord(cls[i + 9]))
    \/ (HasAt(cls, i, <<"l", "a", "n", "g", "-">>) /\ i + 5 <= Len(cls) /\ IsWord(cls[i + 5]))

\* existingClass.match(/(?:language-|lang-)(\w+)/) is not null.
HasLanguageClass(cls) == \E i \in 1..Len(cls) : LanguageMatchAt(cls, i)

\* End of the greedy run \w* starting at i.
SkipWord(s, i) ==
    IF i > Len(s) THEN i
    ELSE CHOOSE j \in i..(Len(s) + 1) :
            /\ (j = Len(s) + 1 \/ ~IsWord(s[j]))
            /\ \A k \in i..(j - 1) : IsWord(s[k])

\* match[1] of the leftmost match of /(?:language-|lang-)(\w+)/.
MatchedLanguage(cls) ==
    LET i == CHOOSE i \in 1..Len(cls) :
                LanguageMatchAt(cls, i) /\ \A k \in 1..(i - 1) : ~LanguageMatchAt(cls, k)
        g == IF HasAt(cls, i, <<"l", "a", "n", "g", "u", "a", "g", "e", "-">>) /\ i + 9 <= Len(cls) /\ IsWord(cls[i + 9])
             THEN i + 9 ELSE i + 5
    IN SubSeq(cls, g, SkipWord(cls, g) - 1)

\* element.classList.add(token) as className reads afterwards.
ClassListAdd(cls, token) == IF cls = << >> THEN token ELSE cls \o <<SP>> \o token

\* if (element.textContent) element.textContent = element.textContent.trim()
NormalizedText(h) == IF h.text # << >> THEN Trim(h.text) ELSE h.text

\* const existingClass = element.className || parent.className || ''
ExistingClass(h) == Or(Or(h.codeClass, h.preClass), << >>)

\* The className of the code element after step 2 of the DOM cleanup.
NormalizedCodeClass(h) ==
    IF ~HasLanguageClass(ExistingClass(h))
    THEN ClassListAdd(h.codeClass, <<"l", "a", "n", "g", "u", "a", "g", "e", "-">> \o detectLanguage(NormalizedText(h)))
    ELSE h.codeClass

\* End of the run \S* starting at i.
SkipNonWs(s, i) ==
    IF i > Len(s) THEN i
    ELSE CHOOSE j \in i..(Len(s) + 1) :
            /\ (j = Len(s) + 1 \/ IsWs(s[j]))
            /\ \A k \in i..(j - 1) : ~IsWs(s[k])

\* The language the translator writes after the opening fence: the word that
\* follows "language-" in the class of the code element, else nothing.
FenceLanguage(cls) ==
    IF \E i \in 1..Len(cls) : HasAt(cls, i, <<"l", "a", "n", "g", "u", "a", "g", "e", "-">>) /\ SkipNonWs(cls, i + 9) > i + 9
    THEN LET i == CHOOSE i \in 1..Len(cls) :
                    /\ HasAt(cls, i, <<"l", "a", "n", "g", "u", "a", "g", "e", "-">>) /\ SkipNonWs(cls, i + 9) > i + 9
                    /\ \A k \in 1..(i - 1) :
                        ~(HasAt(cls, k, <<"l", "a", "n", "g", "u", "a", "g", "e", "-">>) /\ SkipNonWs(cls, k + 9) > k + 9)
         IN SubSeq(cls, i + 9, SkipNonWs(cls, i + 9) - 1)
    ELSE << >>

\* NodeHtmlMarkdown.translate(cleanHtml, {codeBlockStyle: 'fenced', ...}) on
\* the code block: fence and language, the text as it is, fence.
Translate(cls, text) == Fence \o FenceLanguage(cls) \o <<NL>> \o text \o <<NL>> \o Fence

convertToMarkdown(h) ==
    postProcessMarkdown(Translate(NormalizedCodeClass(h), NormalizedText(h)))

\* The Turndown variant's fencedCodeBlock rule: the language it writes after
\* the opening fence.
\*   const classSource = codeElement.className || element.className || '';
\*   const match = classSource.match(/(?:language-|lang-)(\w+)/);
\*   let lang = match ? match[1] : '';  if (!lang) lang = detectLanguage(rawCode);
fencedCodeBlockLang(h) ==
    LET classSource == Or(Or(h.codeClass, h.preClass), << >>) IN
    IF HasLanguageClass(classSource) THEN MatchedLanguage(classSource)
    ELSE detectLanguage(h.text)

----------------------------------------------------------------------------
(* The post-processor applied to raw Markdown documents.                   *)

\* Longest raw document, in pieces.
MaxLines == 3

TextLine == <<"a">>
TrailingSpaceLine == <<"a", SP>>
BoldLine == <<"*", "*", "a", "*", "*">>
IndentedBoldLine == <<SP, SP, "*", "*", "a", "*", "*">>
Bullet2 == <<SP, SP, "-", SP, "a">>
Bullet4 == <<SP, SP, SP, SP, "-", SP, "a">>
Ordered(n) == n \o <<".", SP, "a">>
OrderedLine == Ordered(<<"2">>)
BareMarker == <<"2", ".">>
EscapedHeading == <<"#", SP, "1", "\\", ".", SP, "a">>
\* A fenced code block as the translator emits it: fence, code, fence.
FencedBlock == Fence \o <<NL>> \o TextLine \o <<NL>> \o Fence

\* The pieces a raw document is drawn from: one for each rewrite, text, a
\* blank line, a line that ends in a space and a whole fenced block.
RawLines ==
    { << >>, TextLine, TrailingSpaceLine, BoldLine, IndentedBoldLine, Bullet2,
      Bullet4, OrderedLine, BareMarker, Fence, EscapedHeading, FencedBlock }

RECURSIVE Join(_)
Join(ls) ==
    IF ls = << >> THEN << >>
    ELSE IF Len(ls) = 1 THEN ls[1]
    ELSE ls[1] \o <<NL>> \o Join(Tail(ls))

RawDocs == UNION {[1..n -> RawLines] : n \in 0..MaxLines}

NoHtml == [text |-> << >>, codeClass |-> << >>, preClass |-> << >>]

Init ==
    /\ NoDom
    /\ NoPopup
    /\ pc = "raw"
    /\ lines \in RawDocs
    /\ md = Join(lines)
    /\ indented = << >>
    /\ out = << >>
    /\ out2 = << >>
    /\ html = NoHtml
    /\ code = << >>
    /\ codeClass = << >>
    /\ preClass = << >>
    /\ lang = << >>

\* return postProcessMarkdown(md); indented is clean as step 3 leaves it.
PostProcess ==
    /\ pc = "raw"
    /\ indented' = ReIndent(RenumberOrdered(EmphasisToHeading(md)))
    /\ out' = postProcessMarkdown(md)
    /\ pc' = "clean"
    /\ UNCHANGED <<lines, md, out2, html, code, codeClass, preClass, lang>>
    /\ UNCHANGED <<domVars, popupVars>>

\* The post-processor run on its own output.
PostProcessAgain ==
    /\ pc = "clean"
    /\ out2' = postProcessMarkdown(out)
    /\ pc' = "again"
    /\ UNCHANGED <<lines, md, indented, out, html, code, codeClass, preClass, lang>>
    /\ UNCHANGED <<domVars, popupVars>>

Next == PostProcess \/ PostProcessAgain

Spec == Init /\ [][Next]_vars

----------------------------------------------------------------------------
(* detectLanguage applied to code snippets.                                *)

\* Longest tail of a snippet, in parts.
MaxTail == 2

ConstExample == <<"c", "o", "n", "s", "t", SP, "x", SP, "=", SP, "1", ";", NL, "c", "o", "n", "s", "o", "l", "e", ".", "l", "o", "g", "(", "x", ")", ";">>
GitExample == <<"g", "i", "t", SP, "s", "t", "a", "t", "u", "s">>
JsonExample == <<"{", "\"", "a", "\"", ":", "1", "}">>

\* How a snippet starts: a word of each rule, a word that only begins like
\* one, and nothing.
Heads ==
    { << >>, <<"$">>, <<"g", "i", "t">>, <<"g", "i", "t", "x">>, <<"p", "y", "t", "h", "o", "n">>, <<"c", "o", "n", "s", "t">>, <<"v", "a", "r">>, <<"t", "y", "p", "e">>, <<"i", "m", "p", "o", "r", "t">>,
      <<"c", "l", "a", "s", "s">>, <<"d", "e", "f">>, <<"f", "r", "o", "m">>, <<"i", "f", SP, "_", "_", "n", "a", "m", "e", "_", "_">>, <<"<">>, <<"{">>, <<"d", "i", "v">>, <<"h", "1">>, <<".">>, <<"x">> }

\* What follows: the characters the rules look for.
TailParts == { <<"x">>, <<":">>, <<";">>, <<"{">>, <<"}">>, <<">">>, <<"=", ">">>, <<SP>>, <<NL>> }

RECURSIVE Concat(_)
Concat(ps) == IF ps = << >> THEN << >> ELSE ps[1] \o Concat(Tail(ps))

Tails == {Concat(ps) : ps \in UNION {[1..n -> TailParts] : n \in 0..MaxTail}}

Snippets ==
    {h \o t : h \in Heads, t \in Tails} \cup {ConstExample, GitExample, JsonExample}

InitDetect ==
    /\ NoDom
    /\ NoPopup
    /\ pc = "snippet"
    /\ code \in Snippets
    /\ lang = << >>
    /\ lines = << >>
    /\ md = << >>
    /\ indented = << >>
    /\ out = << >>
    /\ out2 = << >>
    /\ html = NoHtml
    /\ codeClass = << >>
    /\ preClass = << >>

\* lang = detectLanguage(code)
Detect ==
    /\ pc = "snippet"
    /\ lang' = detectLanguage(code)
    /\ pc' = "detected"
    /\ UNCHANGED <<lines, md, indented, out, out2, html, code, codeClass, preClass>>
    /\ UNCHANGED <<domVars, popupVars>>

SpecDetect == InitDetect /\ [][Detect]_vars

----------------------------------------------------------------------------
(* convertToMarkdown applied to code blocks.                               *)

\* Longest code text, in lines.
MaxCodeLines == 2

DefLine == <<"d", "e", "f", SP, "f", "(", ")", ":">>
PassLine == <<SP, SP, SP, SP, "p", "a", "s", "s">>
SpacedLine == <<"a", SP, SP>>

CodeLines == { << >>, <<"x">>, DefLine, PassLine, SpacedLine }

CodeTexts == {Join(ls) : ls \in UNION {[1..n -> CodeLines] : n \in 0..MaxCodeLines}}

CodeClasses == { << >>, <<"h", "l", "j", "s">>, <<"l", "a", "n", "g", "u", "a", "g", "e", "-", "j", "s">>, <<"l", "a", "n", "g", "-", "p", "y">>, <<"h", "l", "j", "s", SP, "l", "a", "n", "g", "u", "a", "g", "e", "-", "j", "s">> }
PreClasses == { << >>, <<"l", "a", "n", "g", "u", "a", "g", "e", "-", "j", "s">>, <<"l", "a", "n", "g", "-", "p", "y">>, <<"w", "r", "a", "p">> }

InitConvert ==
    /\ NoDom
    /\ NoPopup
    /\ pc = "html"
    /\ html \in [text : CodeTexts, codeClass : CodeClasses, preClass : PreClasses]
    /\ code = html.text
    /\ codeClass = html.codeClass
    /\ preClass = html.preClass
    /\ lang = << >>
    /\ lines = << >>
    /\ md = << >>
    /\ indented = << >>
    /\ out = << >>
    /\ out2 = << >>

\* convertToMarkdown(html): the DOM cleanup of the code block, the
\* translation and the post-processing.  lang is the tag the detector
\* returned, empty if it was not asked.
Convert ==
    /\ pc = "html"
    /\ code' = NormalizedText(html)
    /\ codeClass' = NormalizedCodeClass(html)
    /\ lang' = IF HasLanguageClass(ExistingClass(html)) THEN << >>
               ELSE detectLanguage(NormalizedText(html))
    /\ md' = Translate(NormalizedCodeClass(html), NormalizedText(html))
    /\ out' = convertToMarkdown(html)
    /\ pc' = "done"
    /\ UNCHANGED <<lines, indented, out2, html, preClass>>
    /\ UNCHANGED <<domVars, popupVars>>

SpecConvert == InitConvert /\ [][Convert]_vars

----------------------------------------------------------------------------
(* The document tree of convertToMarkdown.  Node 0 is doc.body, the nodes  *)
(* 1..n are numbered in document order as parseFromString leaves them.     *)
(* tagName gives the kind of a node, a childNodes function gives each      *)
(* node's children from first to last.                                     *)

Body0 == 0

Range(s) == {s[k] : k \in DOMAIN s}

\* node.parentNode in the tree kids; -1 stands for null.
ParentNode(kids, n) ==
    IF \E m \in DOMAIN kids : n \in Range(kids[m])
    THEN CHOOSE m \in DOMAIN kids : n \in Range(kids[m])
    ELSE -1

\* The position of child n among the children of m.
IndexOf(kids, m, n) == CHOOSE k \in DOMAIN kids[m] : kids[m][k] = n

\* The nodes below n, n first, in document order.
RECURSIVE PreOrder(_, _)
RECURSIVE PreOrderAll(_, _)
PreOrder(kids, n) == <<n>> \o PreOrderAll(kids, kids[n])

PreOrderAll(kids, ns) ==
    IF ns = << >> THEN << >>
    ELSE PreOrder(kids, Head(ns)) \o PreOrderAll(kids, Tail(ns))

\* The nodes of the document in document order, doc.body left out.
DocumentOrder(kids) == Tail(PreOrder(kids, Body0))

\* The selector li > p on node n.
IsListParagraph(tags, kids, n) ==
    /\ tags[n] = "p"
    /\ ParentNode(kids, n) > Body0
    /\ tags[ParentNode(kids, n)] = "li"

\* doc.querySelectorAll('li > p'): a static list in document order.
QuerySelectorAll(tags, kids) ==
    LET Matches(n) == IsListParagraph(tags, kids, n)
    IN  SelectSeq(DocumentOrder(kids), Matches)

\* The children of m without node n.
Without(kids, n) ==
    LET Other(x) == x # n
    IN  [m \in DOMAIN kids |-> SelectSeq(kids[m], Other)]

\* A variant that moves node to the end of parent (parent.appendChild).
InsertLast(kids, parent, node, ref) ==
    LET detached == Without(kids, node)
    IN  [detached EXCEPT ![parent] = Append(@, node)]

\* parent.insertBefore(node, ref): node leaves the place it has and becomes
\* the child of parent just before ref.
InsertBefore(kids, parent, node, ref) ==
    LET detached == Without(kids, node)
        i == IndexOf(detached, parent, ref)
    IN  [detached EXCEPT ![parent] =
            SubSeq(@, 1, i - 1) \o <<node>> \o SubSeq(@, i, Len(@))]

\* parent.removeChild(node)
RemoveChild(kids, parent, node) ==
    LET Other(x) == x # node
    IN  [kids EXCEPT ![parent] = SelectSeq(@, Other)]

\* while (p.firstChild) parent.insertBefore(p.firstChild, p);
RECURSIVE MoveChildren(_, _, _)
MoveChildren(kids, parent, p) ==
    IF kids[p] = << >> THEN kids
    ELSE MoveChildren(InsertBefore(kids, parent, Head(kids[p]), p), parent, p)

\* The body of the forEach callback for one paragraph p.
UnwrapParagraph(kids, p) ==
    LET parent == ParentNode(kids, p)
    IN  IF parent = -1 THEN kids
        ELSE RemoveChild(MoveChildren(kids, parent, p), parent, p)

\* forEach over the static list ps.
RECURSIVE UnwrapEach(_, _)
UnwrapEach(kids, ps) ==
    IF ps = << >> THEN kids
    ELSE UnwrapEach(UnwrapParagraph(kids, Head(ps)), Tail(ps))

\* Step 1 of the DOM cleanup.
UnwrapListParagraphs(tags, kids) == UnwrapEach(kids, QuerySelectorAll(tags, kids))

----------------------------------------------------------------------------
(* Specification SpecUnwrap: step 1 of the DOM cleanup on every tree of at *)
(* most MaxNodes nodes made of list items, paragraphs, other elements and  *)
(* text nodes.                                                             *)

MaxNodes == 4

NodeKinds == {"li", "p", "b", "#text"}

\* The nodes from n up to doc.body in the tree given by the parent function.
RECURSIVE Ancestors(_, _)
Ancestors(par, n) == IF n = Body0 THEN {Body0} ELSE {n} \cup Ancestors(par, par[n])

\* Parent functions of the trees whose nodes 1..n are in document order:
\* node i hangs below node i - 1 or below one of its ancestors.
Shapes(n) ==
    {par \in [1..n -> 0..(n - 1)] :
        \A i \in 1..n : /\ par[i] < i
                        /\ i > 1 => par[i] \in Ancestors(par, i - 1)}

\* The childNodes of the tree with parent function par.
ChildNodesOf(par, n) ==
    [m \in 0..n |->
        LET IsChild(i) == par[i] = m
        IN  SelectSeq([i \in 1..n |-> i], IsChild)]

\* The trees: a text node has no children.
Labellings(par, n) ==
    {tags \in [1..n -> NodeKinds] : \A i \in 1..n : par[i] = Body0 \/ tags[par[i]] # "#text"}

\* No conversion of a string is under way.
NoConversion ==
    /\ lines = << >>
    /\ md = << >>
    /\ indented = << >>
    /\ out = << >>
    /\ out2 = << >>
    /\ html = NoHtml
    /\ code = << >>
    /\ codeClass = << >>
    /\ preClass = << >>
    /\ lang = << >>

InitUnwrap ==
    /\ pc = "parsed"
    /\ \E n \in 0..MaxNodes : \E par \in Shapes(n) :
            /\ tagName \in Labellings(par, n)
            /\ parsed = ChildNodesOf(par, n)
    /\ childNodes = parsed
    /\ NoConversion
    /\ NoPopup

\* doc.querySelectorAll('li > p').forEach(...)
Unwrap ==
    /\ pc = "parsed"
    /\ childNodes' = UnwrapListParagraphs(tagName, childNodes)
    /\ pc' = "unwrapped"
    /\ UNCHANGED <<lines, md, indented, out, out2, html, code, codeClass, preClass, lang>>
    /\ UNCHANGED <<tagName, parsed, popupVars>>

SpecUnwrap == InitUnwrap /\ [][Unwrap]_vars

----------------------------------------------------------------------------
(* Specification SpecPopup: the App component.  autoLoadSelection runs     *)
(* after the mount and stops at each await; a Copy click starts a          *)
(* writeText whose promise settles later; Clear resets; a setTimeout       *)
(* callback fires when its delay has passed.  Time passes in steps of      *)
(* 1000 ms, and a callback that is due fires before more time passes.      *)

MaxClicks == 2

AutoDelay == 3

CopyDelay == 2

\* The fragment the page's selection gives.
Selection == [text |-> DefLine \o <<NL>> \o PassLine, codeClass |-> << >>, preClass |-> << >>]

InitPopup ==
    /\ pc = "popup"
    /\ status = "idle"
    /\ statusBy = Event("mount", 0)
    /\ markdownOutput = << >>
    /\ clipboard = << >>
    /\ auto = "start"
    /\ autoMd = << >>
    /\ clicks = 0
    /\ writes = {}
    /\ timers = {}
    /\ NoConversion
    /\ NoDom

\* autoLoadSelection up to its first await: without the extension API the
\* status is dev-mode, with it scanning.
AutoStart ==
    /\ auto = "start"
    /\ \/ status' = "dev-mode" /\ auto' = "done"
       \/ status' = "scanning" /\ auto' = "query"
    /\ statusBy' = Event("auto", 0)
    /\ UNCHANGED <<markdownOutput, clipboard, autoMd, clicks, writes, timers>>
    /\ UNCHANGED <<convVars, domVars>>

\* chrome.tabs.query settles: no tab id, a rejection, or a tab.
AutoQuery ==
    /\ auto = "query"
    /\ \/ status' = "idle" /\ statusBy' = Event("auto", 0) /\ auto' = "done"
       \/ status' = "error" /\ statusBy' = Event("auto", 0) /\ auto' = "done"
       \/ auto' = "script" /\ UNCHANGED <<status, statusBy>>
    /\ UNCHANGED <<markdownOutput, clipboard, autoMd, clicks, writes, timers>>
    /\ UNCHANGED <<convVars, domVars>>

\* chrome.scripting.executeScript settles: a rejection, no selection, or the
\* selected fragment, which is converted and shown; writeText is started.
AutoScript ==
    /\ auto = "script"
    /\ \/ /\ status' = "error" /\ statusBy' = Event("auto", 0) /\ auto' = "done"
          /\ UNCHANGED <<markdownOutput, autoMd>>
       \/ /\ status' = "no-selection" /\ statusBy' = Event("auto", 0) /\ auto' = "done"
          /\ UNCHANGED <<markdownOutput, autoMd>>
       \/ /\ autoMd' = convertToMarkdown(Selection)
          /\ markdownOutput' = convertToMarkdown(Selection)
          /\ auto' = "write"
          /\ UNCHANGED <<status, statusBy>>
    /\ UNCHANGED <<clipboard, clicks, writes, timers>>
    /\ UNCHANGED <<convVars, domVars>>

\* navigator.clipboard.writeText(md) of autoLoadSelection settles.
AutoWrite ==
    /\ auto = "write"
    /\ \/ /\ clipboard' = autoMd
          /\ status' = "copied"
          /\ timers' = timers \cup {[by |-> Event("auto", 0), left |-> AutoDelay]}
       \/ /\ status' = "copy-failed"
          /\ UNCHANGED <<clipboard, timers>>
    /\ statusBy' = Event("auto", 0)
    /\ auto' = "done"
    /\ UNCHANGED <<markdownOutput, autoMd, clicks, writes>>
    /\ UNCHANGED <<convVars, domVars>>

\* A Copy click: copyToClipboard up to its await.
CopyClick ==
    /\ clicks < MaxClicks
    /\ clicks' = clicks + 1
    /\ writes' = writes \cup {[n |-> clicks + 1, text |-> markdownOutput]}
    /\ UNCHANGED <<status, statusBy, markdownOutput, clipboard, auto, autoMd, timers>>
    /\ UNCHANGED <<convVars, domVars>>

\* The writeText of a Copy click resolves.
CopyResolved ==
    /\ \E w \in writes :
            /\ writes' = writes \ {w}
            /\ clipboard' = w.text
            /\ status' = "copied"
            /\ statusBy' = Event("copy", w.n)
            /\ timers' = timers \cup {[by |-> Event("copy", w.n), left |-> CopyDelay]}
    /\ UNCHANGED <<markdownOutput, auto, autoMd, clicks>>
    /\ UNCHANGED <<convVars, domVars>>

\* The writeText of a Copy click rejects.
CopyRejected ==
    /\ \E w \in writes :
            /\ writes' = writes \ {w}
            /\ status' = "error"
            /\ statusBy' = Event("copy", w.n)
    /\ UNCHANGED <<markdownOutput, clipboard, auto, autoMd, clicks, timers>>
    /\ UNCHANGED <<convVars, domVars>>

\* A Clear click.  The editor's content, which clearAll empties too, is not
\* part of the state.
ClearAll ==
    /\ pc = "popup"
    /\ markdownOutput' = << >>
    /\ status' = "idle"
    /\ statusBy' = Event("clear", 0)
    /\ UNCHANGED <<clipboard, auto, autoMd, clicks, writes, timers>>
    /\ UNCHANGED <<convVars, domVars>>

\* The callback () => setStatus('idle') of a timer that is due.
TimerFired ==
    /\ \E t \in timers :
            /\ t.left = 0
            /\ timers' = timers \ {t}
    /\ status' = "idle"
    /\ statusBy' = Event("timer", 0)
    /\ UNCHANGED <<markdownOutput, clipboard, auto, autoMd, clicks, writes>>
    /\ UNCHANGED <<convVars, domVars>>

\* 1000 ms pass while no callback is due.
Tick ==
    /\ timers # {}
    /\ \A t \in timers : t.left > 0
    /\ timers' = {[t EXCEPT !.left = @ - 1] : t \in timers}
    /\ UNCHANGED <<status, statusBy, markdownOutput, clipboard, auto, autoMd, clicks, writes>>
    /\ UNCHANGED <<convVars, domVars>>

NextPopup ==
    \/ AutoStart
    \/ AutoQuery
    \/ AutoScript
    \/ AutoWrite
    \/ CopyClick
    \/ CopyResolved
    \/ CopyRejected
    \/ ClearAll
    \/ TimerFired
    \/ Tick

SpecPopup == InitPopup /\ [][NextPopup]_vars

----------------------------------------------------------------------------
(* Reading a document line by line.                                        *)

RECURSIVE SplitLines(_)
SplitLines(s) ==
    LET e == LineEndOf(s, 1) IN
    IF e > Len(s) THEN <<s>>
    ELSE <<SubSeq(s, 1, e - 1)>> \o SplitLines(SubSeq(s, e + 1, Len(s)))

\* Number of spaces a line starts with.
LeadingSpaces(l) ==
    CHOOSE n \in 0..Len(l) :
        /\ \A k \in 1..n : l[k] = SP
        /\ (n = Len(l) \/ l[n + 1] # SP)

IsBlank(l) == \A k \in 1..Len(l) : IsWs(l[k])

\* The document without the line break step 6 appends.
Body(s) == SubSeq(s, 1, Len(s) - 1)

\* The number of the ordered-list item on the line starting at i: optional
\* indentation, digits, a period, then whitespace; << >> if the line is none.
ItemNumberAt(s, i) ==
    LET l == LineAt(s, i)
        j == CHOOSE j \in 1..(Len(l) + 1) :
                /\ (j = Len(l) + 1 \/ l[j] \notin {SP, TAB})
                /\ \A k \in 1..(j - 1) : l[k] \in {SP, TAB}
        d == SkipDigits(l, j)
    IN IF /\ d > j
          /\ d <= Len(l)
          /\ l[d] = "."
          /\ IF d = Len(l) THEN i + Len(l) <= Len(s) ELSE IsWs(l[d + 1])
       THEN SubSeq(l, j, d - 1)
       ELSE << >>

\* The raw document with its items, all numbered 2., numbered n instead.
Renumbered(ls, n) == [k \in DOMAIN ls |-> IF ls[k] = OrderedLine THEN Ordered(n) ELSE ls[k]]

\* The raw document with the item on piece k numbered k.
Digit == <<"1", "2", "3", "4", "5", "6", "7", "8", "9">>
NumberedInOrder(ls) ==
    [k \in DOMAIN ls |-> IF ls[k] = OrderedLine THEN Ordered(<<Digit[k]>>) ELSE ls[k]]

----------------------------------------------------------------------------
(* Claims on the post-processor.                                           *)

\* C1: postProcessMarkdown(postProcessMarkdown(x)) = postProcessMarkdown(x)
\* for every Markdown string x.
C1_Idempotent == pc = "again" => out2 = out

\* C3: the result of postProcessMarkdown ends with exactly one line break:
\* its last character is a line break and the character before it, if there
\* is one, is no whitespace.  Empty and whitespace-only input included.
C3_OneTrailingLineBreak ==
    pc # "raw" =>
        /\ Len(out) >= 1
        /\ out[Len(out)] = NL
        /\ (Len(out) >= 2 => ~IsWs(out[Len(out) - 1]))

\* C3 witness: a document of one line break only, which is whitespace, comes
\* out as one line break.
C3_Witness == pc = "clean" /\ md = <<NL>> /\ out = <<NL>>

C8_BoldLineBecomesHeading ==
    pc = "clean" =>
        \A k \in DOMAIN lines :
            lines[k] \in {BoldLine, IndentedBoldLine} =>
                \E n \in DOMAIN SplitLines(out) :
                    Trim(SplitLines(out)[n]) = H3 \o <<"a">>

\* C9: in step 3 a list line indented by exactly 2 spaces ends with exactly 4
\* spaces before its marker, one indented by exactly 4 ends with exactly 8,
\* and any other indentation is kept.
C9_ReIndent ==
    pc = "clean" =>
        LET before == SplitLines(RenumberOrdered(EmphasisToHeading(md)))
            after == SplitLines(indented)
        IN /\ Len(after) = Len(before)
           /\ \A k \in DOMAIN before :
                LET n == LeadingSpaces(before[k]) IN
                MarkerEnd(before[k], n + 1) # 0 =>
                    /\ LeadingSpaces(after[k]) = (IF n = 2 THEN 4 ELSE IF n = 4 THEN 8 ELSE n)
                    /\ SubSeq(after[k], LeadingSpaces(after[k]) + 1, Len(after[k]))
                         = SubSeq(before[k], n + 1, Len(before[k]))

\* The fence lines of a document, in order.
FenceLines(ls) == {k \in DOMAIN ls : ls[k] = Fence}

\* C10: in a document of text, blank lines and fenced blocks, after
\* postProcessMarkdown every fence has exactly one blank line between the
\* block and the content outside it, and no blank line is inserted between a
\* fence and the code line it encloses: the line after an opening fence and
\* the line before a closing fence are the code line.
C10_FenceSpacing ==
    (pc = "clean" /\ \A k \in DOMAIN lines : lines[k] \in {<< >>, TextLine, FencedBlock}) =>
        LET ol == SplitLines(Body(out))
            IsOpening(f) == Cardinality({g \in FenceLines(ol) : g < f}) % 2 = 0
        IN \A f \in FenceLines(ol) :
            IF IsOpening(f)
            THEN /\ f > 1 => (IsBlank(ol[f - 1]) /\ (f > 2 => ~IsBlank(ol[f - 2])))
                 /\ f < Len(ol) /\ ol[f + 1] = TextLine
            ELSE /\ f < Len(ol) =>
                    (IsBlank(ol[f + 1]) /\ f + 2 <= Len(ol) /\ ~IsBlank(ol[f + 2]))
                 /\ f > 1 /\ ol[f - 1] = TextLine

----------------------------------------------------------------------------
(* Claims on detectLanguage.                                               *)

\* The keywords the claim lists for the javascript rule.
ListedJsKeywords ==
    { <<"i", "m", "p", "o", "r", "t">>, <<"e", "x", "p", "o", "r", "t">>, <<"c", "o", "n", "s", "t">>, <<"l", "e", "t">>, <<"f", "u", "n", "c", "t", "i", "o", "n">>, <<"c", "l", "a", "s", "s">>, <<"a", "s", "y", "n", "c">>,
      <<"i", "n", "t", "e", "r", "f", "a", "c", "e">>, <<"t", "y", "p", "e">> }

\* The rules of the claim in their priority order, each a condition on the
\* snippet c and the tag it gives; kws are the keywords of the third rule.
ClaimedRules(c, kws) ==
    LET trimmed == Trim(c)
        firstLine == Trim(FirstLineOf(trimmed))
    IN << <<trimmed = << >>, TagText>>,
          <<IsShell(firstLine), TagShell>>,
          << \/ StartsWithWord(firstLine, kws)
             \/ Includes(trimmed, <<"c", "o", "n", "s", "o", "l", "e", ".", "l", "o", "g">>)
             \/ Includes(trimmed, <<"=", ">">>)
             \/ Includes(trimmed, <<"d", "o", "c", "u", "m", "e", "n", "t", ".", "g", "e", "t", "E", "l", "e", "m", "e", "n", "t", "B", "y", "I", "d">>),
             TagJavascript >>,
          <<IsPython(firstLine), TagPython>>,
          <<IsHtml(trimmed), TagHtml>>,
          <<IsJson(trimmed), TagJson>>,
          <<IsCss(trimmed, firstLine), TagCss>> >>

\* The tag of the first rule that matches, shell if none does.
FirstMatch(rules) ==
    IF \E k \in DOMAIN rules : rules[k][1]
    THEN rules[CHOOSE k \in DOMAIN rules :
                    rules[k][1] /\ \A j \in 1..(k - 1) : ~rules[j][1]][2]
    ELSE TagShell

\* C5 as stated: detectLanguage returns the tag of the first matching rule,
\* the javascript rule having the nine listed keywords (import, export, const,
\* let, function, class, async, interface, type).
C5_ListedKeywords ==
    pc = "detected" => lang = FirstMatch(ClaimedRules(code, ListedJsKeywords))

\* C5 amended: detectLanguage returns the tag of the first matching rule, the
\* javascript rule having the nine listed keywords and var; the three examples
\* give javascript, shell and json.
C5_FirstMatchWins ==
    pc = "detected" =>
        /\ lang = FirstMatch(ClaimedRules(code, ListedJsKeywords \cup {<<"v", "a", "r">>}))
        /\ code = ConstExample => lang = TagJavascript
        /\ code = GitExample => lang = TagShell
        /\ code = JsonExample => lang = TagJson

\* C5 witness: "import x" matches the javascript rule and the python rule,
\* and the earlier one gives the tag.
C5_Witness ==
    /\ pc = "detected"
    /\ code = <<"i", "m", "p", "o", "r", "t", SP, "x">>
    /\ IsPython(code)
    /\ lang = TagJavascript

----------------------------------------------------------------------------
(* Claims on convertToMarkdown.                                            *)

\* C2: no line of the string convertToMarkdown returns ends with a space or a
\* tab.
C2_NoTrailingWhitespace ==
    pc = "done" =>
        \A i \in LineStarts(out) :
            LineAt(out, i) = << >> \/ LineAt(out, i)[Len(LineAt(out, i))] \notin {SP, TAB}

\* C4: a code block without a language annotation comes out as the opening
\* fence with the inferred tag, the trimmed code with no line added or
\* removed, the closing fence and one line break; stated on the example of the
\* claim: "def f():\n    pass" gives the four lines and one line break.
C4_DefExample ==
    ( /\ pc = "done"
      /\ html.text = DefLine \o <<NL>> \o PassLine
      /\ ~HasLanguageClass(html.codeClass)
      /\ ~HasLanguageClass(html.preClass) ) =>
        out = Fence \o TagPython \o <<NL>> \o DefLine \o <<NL>> \o PassLine
                \o <<NL>> \o Fence \o <<NL>>

\* C6: the detector's tag is attached only when neither the code element nor
\* the pre element carries a language annotation; when either carries one no
\* annotation is added, the detector's tag is not used and the tag written
\* after the fence is the existing one.
C6_ExistingAnnotationKept ==
    pc = "done" =>
        IF HasLanguageClass(html.codeClass) \/ HasLanguageClass(html.preClass)
        THEN /\ codeClass = html.codeClass
             /\ lang = << >>
             /\ fencedCodeBlockLang(html) =
                    IF HasLanguageClass(html.codeClass)
                    THEN MatchedLanguage(html.codeClass)
                    ELSE MatchedLanguage(html.preClass)
        ELSE codeClass = ClassListAdd(html.codeClass, <<"l", "a", "n", "g", "u", "a", "g", "e", "-">> \o detectLanguage(code))

----------------------------------------------------------------------------
(* Claims on the list-paragraph unwrapping.                                *)

\* Node n was a paragraph directly below a list item when the step began.
WasListParagraph(n) == IsListParagraph(tagName, parsed, n)

\* The content nodes of list item l when the step began: its children, each
\* paragraph among them replaced by the paragraph's own children.
RECURSIVE ContentNodes(_)
ContentNodes(ns) ==
    IF ns = << >> THEN << >>
    ELSE (IF tagName[Head(ns)] = "p" THEN parsed[Head(ns)] ELSE <<Head(ns)>>)
         \o ContentNodes(Tail(ns))

\* The document order the step began with, the unwrapped paragraphs left out.
OrderWithoutListParagraphs ==
    LET Stays(n) == ~WasListParagraph(n)
    IN  SelectSeq(DocumentOrder(parsed), Stays)

\* C11: after the unwrapping step no paragraph that was a direct child of a
\* list item is in the tree; the children of every list item are its former
\* content nodes (the former children of its paragraphs and its other
\* children) in their former order; and the document order of all the other
\* nodes is the one the step began with, each node once.
C11_ListParagraphsUnwrapped ==
    pc = "unwrapped" =>
        /\ \A n \in DOMAIN tagName :
                WasListParagraph(n) => n \notin Range(DocumentOrder(childNodes))
        /\ \A l \in DOMAIN tagName :
                tagName[l] = "li" => childNodes[l] = ContentNodes(parsed[l])
        /\ DocumentOrder(childNodes) = OrderWithoutListParagraphs

\* C11 witness: a list item whose paragraph, with one child, is followed by
\* another child of the item, after the step.
C11_Witness ==
    /\ pc = "unwrapped"
    /\ \E l \in DOMAIN tagName :
            /\ tagName[l] = "li"
            /\ Len(parsed[l]) = 2
            /\ WasListParagraph(parsed[l][1])
            /\ Len(parsed[parsed[l][1]]) = 1
            /\ childNodes[l] = <<parsed[parsed[l][1]][1], parsed[l][2]>>

----------------------------------------------------------------------------
(* Claims on the popup's status.                                           *)

\* The events whose reset timers are pending.
Armed == {t.by : t \in timers}

\* C12: when the reset timer armed by a successful copy fires, the status it
\* replaces by idle is that copy's own (or is idle already): it never
\* replaces a status that a later event has set.
C12_TimerEndsOwnStatus ==
    [][\A e \in Armed : e \notin Armed' => (statusBy = e \/ status = "idle")]_vars

====
